---------------------------- MODULE Spec2Model ----------------------------
(***************************************************************************)
(* Model of the two algorithms of the Stock-analyst repository:            *)
(*                                                                         *)
(*   - _fetch_json_rows     (src/fetch_cafef_trade_data.py), the loop that *)
(*     walks the pages of CafeF's JSON endpoints;                          *)
(*   - aggregate_trade_data (src/fetch_smoney_trade_data.py), the          *)
(*     resampling of a daily table to the granularity of a horizon.        *)
(*                                                                         *)
(* Spec is the collector running against a remote service drawn from a     *)
(* bounded family of services; AggSpec is the aggregator run on a table    *)
(* and a period label drawn from bounded sets.                             *)
(***************************************************************************)
EXTENDS Integers, Sequences, FiniteSets, TLC

VARIABLES
    \* ---- _fetch_json_rows: arguments and the remote service
    list_key,       \* argument list_key
    page_size,      \* argument page_size
    srv,            \* the remote service the call runs against
    \* ---- _fetch_json_rows: locals
    pc,             \* position in the function
    page_index,
    rows,
    total_count,
    response,       \* the last response received
    records,        \* the record list taken from the last page
    requests,       \* the page indices requested so far, in order
    result,         \* the returned list (meaningful when pc = "returned")
    \* ---- aggregate_trade_data
    df_in,          \* argument df, as the caller holds it
    period_in,      \* argument period, as the caller passed it
    apc,            \* position in the function
    period,         \* local period (after upper())
    freq,
    df,             \* local df
    agg_map,
    resample_calls, \* number of calls of df.resample made
    aggregated      \* the returned table (meaningful when apc = "returned")

cvars == <<list_key, page_size, srv, pc, page_index, rows, total_count,
           response, records, requests, result>>
avars == <<df_in, period_in, apc, period, freq, df, agg_map, resample_calls,
           aggregated>>
vars == <<cvars, avars>>

-----------------------------------------------------------------------------
(***************************************************************************)
(* Bounds of the model.                                                    *)
(***************************************************************************)
MaxN == 3          \* records held by a finite remote dataset: 0..MaxN
MaxP == 2          \* page sizes: 1..MaxP
MaxTotal == 4      \* TotalCount values a service reports: 0..MaxTotal
MaxPages == 6      \* the model stops following a run after this many pages

-----------------------------------------------------------------------------
(***************************************************************************)
(* Small helpers.                                                          *)
(***************************************************************************)
Max(a, b) == IF a >= b THEN a ELSE b
Min(a, b) == IF a <= b THEN a ELSE b
\* The records with identifiers lo..hi, in order (empty when hi < lo).
Ids(lo, hi) == [k \in 1..Max(0, hi - lo + 1) |-> lo + k - 1]

\* Python's None for total_count.
None == -1

\* A JSON object is a function from its keys; dict.get(key, default).
EmptyDict == [k \in {} |-> 0]
DictGet(d, key, default) == IF key \in DOMAIN d THEN d[key] ELSE default

-----------------------------------------------------------------------------
(***************************************************************************)
(* The remote service.  A service holds either a finite dataset of srv.n   *)
(* records or an endless one; it serves page i as the i-th slice of        *)
(* page_size records, reports TotalCount (or not) on every page, and lays  *)
(* the record list out in one of the shapes below.                         *)
(***************************************************************************)
Shapes(key) ==
    IF key = "Data"
    THEN {"shallow", "noKey", "noSection"}
    ELSE {"shallow", "nested", "both", "innerNoKey", "noKey", "noSection"}

\* The shapes in which the record list is present at one of the two paths.
ListShapes == {"shallow", "nested", "both"}

Services ==
    [n : 0..MaxN, endless : BOOLEAN, hasTotal : BOOLEAN, total : 0..MaxTotal,
     shape : {"shallow", "nested", "both", "innerNoKey", "noKey", "noSection"}]

\* The slice of the dataset that page i holds.
PageRecords(s, P, i) ==
    IF s.endless THEN Ids((i - 1) * P + 1, i * P)
    ELSE Ids((i - 1) * P + 1, Min(i * P, s.n))

\* A list that is not the page's record list, found at the nested path of a
\* body that also has the shallow key.
Decoy == <<0>>

\* The "Data" section of the body of page i.
DataSection(s, key, P, i) ==
    LET tot == IF s.hasTotal THEN [TotalCount |-> s.total] ELSE EmptyDict
        recs == PageRecords(s, P, i)
    IN CASE s.shape = "shallow" -> (key :> recs) @@ tot
         [] s.shape = "nested" -> ("Data" :> (key :> recs)) @@ tot
         [] s.shape = "both" -> (key :> recs) @@ ("Data" :> (key :> Decoy)) @@ tot
         [] s.shape = "innerNoKey" -> ("Data" :> EmptyDict) @@ tot
         [] OTHER -> tot

\* The parsed body of page i: {"Data": {...}, "Success": true}.
DataJson(s, key, P, i) ==
    IF s.shape = "noSection" THEN [Success |-> TRUE]
    ELSE [Data |-> DataSection(s, key, P, i), Success |-> TRUE]

\* What a request of page i may come back with: an error status, a status
\* that is neither an error nor a success (300 Multiple Choices, which the
\* HTTP client does not follow) with a body that is not JSON, or 200 with a
\* body that is not JSON or with the page.
Responses(s, key, P, i) ==
    { [status |-> 404, json |-> FALSE, body |-> EmptyDict],
      [status |-> 503, json |-> FALSE, body |-> EmptyDict],
      [status |-> 300, json |-> FALSE, body |-> EmptyDict],
      [status |-> 200, json |-> FALSE, body |-> EmptyDict],
      [status |-> 200, json |-> TRUE, body |-> DataJson(s, key, P, i)] }

NoResponse == [status |-> 200, json |-> TRUE, body |-> EmptyDict]

-----------------------------------------------------------------------------
(***************************************************************************)
(* _fetch_json_rows                                                        *)
(***************************************************************************)

\* Line 102: Response.raise_for_status() raises on the statuses 400..599.
RaisesForStatus(status) == status >= 400 /\ status < 600

\* Lines 111-117 with the nested path tried first.
ExtractRecordsNestedFirst(data_section, key) ==
    LET inner == DictGet(data_section, "Data", EmptyDict)
    IN IF "Data" \in DOMAIN data_section /\ key # "Data" /\ key \in DOMAIN inner
       THEN inner[key]
       ELSE DictGet(data_section, key, <<>>)

\* Lines 111-117: the record list of a "Data" section.
ExtractRecords(data_section, key) ==
    IF key \in DOMAIN data_section
    THEN DictGet(data_section, key, <<>>)
    ELSE LET inner == DictGet(data_section, "Data", EmptyDict)
         IN DictGet(inner, key, <<>>)

\* Lines 107-108: total_count is read from the first page only.
ReadTotalCount(tc, data_section) ==
    IF tc = None THEN DictGet(data_section, "TotalCount", 0) ELSE tc

\* Line 122 with > for >=.
AllFetchedStrict(n, tc) == n > tc

\* Line 122: the loop's only exit test.
AllFetched(n, tc) == n >= tc

\* Lines 84-101: the request of page page_index is sent and answered.
Get ==
    /\ pc = "request"
    /\ page_index <= MaxPages
    /\ \E r \in Responses(srv, list_key, page_size, page_index) : response' = r
    /\ requests' = Append(requests, page_index)
    /\ pc' = "status"
    /\ UNCHANGED <<list_key, page_size, srv, page_index, rows, total_count,
                   records, result>>
    /\ UNCHANGED avars

\* Line 102 with the slip of requesting the page again instead of raising.
RaiseForStatusRetry ==
    /\ pc = "status"
    /\ RaisesForStatus(response.status)
    /\ pc' = "request"
    /\ UNCHANGED <<list_key, page_size, srv, page_index, rows, total_count,
                   response, records, requests, result>>
    /\ UNCHANGED avars

\* Line 102: raise_for_status() raises HTTPError, which nothing catches.
RaiseForStatus ==
    /\ pc = "status"
    /\ RaisesForStatus(response.status)
    /\ pc' = "HttpError"
    /\ UNCHANGED <<list_key, page_size, srv, page_index, rows, total_count,
                   response, records, requests, result>>
    /\ UNCHANGED avars

\* Line 103: response.json() raises on a body that is not JSON.
JsonError ==
    /\ pc = "status"
    /\ ~RaisesForStatus(response.status)
    /\ ~response.json
    /\ pc' = "ParseError"
    /\ UNCHANGED <<list_key, page_size, srv, page_index, rows, total_count,
                   response, records, requests, result>>
    /\ UNCHANGED avars

\* Lines 103-124: the rest of one iteration of the loop.
ProcessPage ==
    /\ pc = "status"
    /\ ~RaisesForStatus(response.status)
    /\ response.json
    /\ LET data_section == DictGet(response.body, "Data", EmptyDict)
           tc == ReadTotalCount(total_count, data_section)
           recs == ExtractRecords(data_section, list_key)
           all == rows \o recs
       IN /\ total_count' = tc
          /\ records' = recs
          /\ rows' = all
          /\ IF AllFetched(Len(all), tc)
             THEN pc' = "return" /\ page_index' = page_index
             ELSE pc' = "request" /\ page_index' = page_index + 1
    /\ UNCHANGED <<list_key, page_size, srv, response, requests, result>>
    /\ UNCHANGED avars

\* Line 125.
Return ==
    /\ pc = "return"
    /\ result' = rows
    /\ pc' = "returned"
    /\ UNCHANGED <<list_key, page_size, srv, page_index, rows, total_count,
                   response, records, requests>>
    /\ UNCHANGED avars

-----------------------------------------------------------------------------
(***************************************************************************)
(* aggregate_trade_data: strings.  A Python str is the sequence of its     *)
(* characters, so that upper(), lower(), startswith() and "in" are         *)
(* computed on the characters.                                             *)
(***************************************************************************)
LowerLetters == <<"a", "b", "c", "d", "e", "f", "g", "h", "i", "j", "k", "l", "m",
                  "n", "o", "p", "q", "r", "s", "t", "u", "v", "w", "x", "y", "z">>
UpperLetters == <<"A", "B", "C", "D", "E", "F", "G", "H", "I", "J", "K", "L", "M",
                  "N", "O", "P", "Q", "R", "S", "T", "U", "V", "W", "X", "Y", "Z">>

UpperChar(c) ==
    IF \E i \in DOMAIN LowerLetters : LowerLetters[i] = c
    THEN UpperLetters[CHOOSE i \in DOMAIN LowerLetters : LowerLetters[i] = c]
    ELSE c

LowerChar(c) ==
    IF \E i \in DOMAIN UpperLetters : UpperLetters[i] = c
    THEN LowerLetters[CHOOSE i \in DOMAIN UpperLetters : UpperLetters[i] = c]
    ELSE c

\* str.upper() (line 147), with the slip of leaving the string as it is.
UpperOmitted(s) == s

Upper(s) == [i \in DOMAIN s |-> UpperChar(s[i])]

\* str.lower() (line 180).
Lower(s) == [i \in DOMAIN s |-> LowerChar(s[i])]

\* str.startswith(prefix) (line 178).
StartsWith(s, prefix) ==
    /\ Len(prefix) <= Len(s)
    /\ SubSeq(s, 1, Len(prefix)) = prefix

\* sub in s (lines 169, 180).
Contains(s, sub) ==
    \E i \in 1..(Len(s) - Len(sub) + 1) : SubSeq(s, i, i + Len(sub) - 1) = sub

\* x in list (lines 163, 176).
InSeq(x, seq) == \E i \in DOMAIN seq : seq[i] = x

\* The string literals of the function.
S_1M == <<"1", "M">>
S_6M == <<"6", "M">>
S_1Y == <<"1", "Y">>
S_2Y == <<"2", "Y">>
S_3Y == <<"3", "Y">>
S_5Y == <<"5", "Y">>
S_date == <<"d", "a", "t", "e">>
S_cumulative == <<"c", "u", "m", "u", "l", "a", "t", "i", "v", "e">>
S_total_ == <<"t", "o", "t", "a", "l", "_">>
S_price == <<"p", "r", "i", "c", "e">>

-----------------------------------------------------------------------------
(***************************************************************************)
(* aggregate_trade_data: tables.  A DataFrame is its index, the names of   *)
(* its columns in order, and its rows, each the cells of the columns in    *)
(* order.  A cell is the rational num/den; den = 0 is NaN.  A date is the  *)
(* day of the year 2024 (day 1, the 1st of January, is a Monday).          *)
(***************************************************************************)
Val(k) == [num |-> k, den |-> 1]
NaN == [num |-> 0, den |-> 0]
IsNaN(c) == c.den = 0

\* RangeIndex(n): 0, 1, ..., n - 1.
RangeIndex(n) == [i \in 1..n |-> i - 1]

\* The position of a column in a list of column names (0 when absent).
ColPos(columns, name) ==
    IF InSeq(name, columns)
    THEN CHOOSE i \in DOMAIN columns : columns[i] = name
    ELSE 0

\* A sequence without its element at position k (k = 0: the sequence).
DropAt(seq, k) ==
    [i \in 1..(Len(seq) - (IF k \in DOMAIN seq THEN 1 ELSE 0)) |->
        IF k = 0 \/ i < k THEN seq[i] ELSE seq[i + 1]]

\* df.copy().reset_index() without drop=True: the old index becomes a column.
CopyResetIndexKept(t) ==
    [index |-> RangeIndex(Len(t.data)),
     columns |-> <<<<"i", "n", "d", "e", "x">>>> \o t.columns,
     data |-> [r \in DOMAIN t.data |-> <<Val(t.index[r])>> \o t.data[r]]]

\* Line 150: df.copy().reset_index(drop=True).
CopyResetIndex(t) ==
    [index |-> RangeIndex(Len(t.data)), columns |-> t.columns, data |-> t.data]

\* Line 165: df.set_index("date").
SetIndex(t, name) ==
    LET k == ColPos(t.columns, name)
    IN [index |-> [r \in DOMAIN t.data |-> t.data[r][k].num],
        columns |-> DropAt(t.columns, k),
        data |-> [r \in DOMAIN t.data |-> DropAt(t.data[r], k)]]

\* Line 169: the columns whose name contains "cumulative".
CumCols(columns) == SelectSeq(columns, LAMBDA col : Contains(col, S_cumulative))

\* Line 171: df[cum_cols].ffill(), down the rows in their order.
RECURSIVE FilledCell(_, _, _)
FilledCell(data, r, k) ==
    IF ~IsNaN(data[r][k]) \/ r = 1 THEN data[r][k]
    ELSE FilledCell(data, r - 1, k)

FFill(t, cum_cols) ==
    [t EXCEPT !.data =
        [r \in DOMAIN t.data |->
            [k \in DOMAIN t.columns |->
                IF InSeq(t.columns[k], cum_cols)
                THEN FilledCell(t.data, r, k)
                ELSE t.data[r][k]]]]

\* Lines 176-184 with the first two tests exchanged.
AggRuleTotalFirst(col, cum_cols) ==
    IF StartsWith(col, S_total_) THEN "sum"
    ELSE IF InSeq(col, cum_cols) THEN "last"
    ELSE "mean"

\* Lines 176-184: the rule of one column.
AggRule(col, cum_cols) ==
    IF InSeq(col, cum_cols) THEN "last"
    ELSE IF StartsWith(col, S_total_) THEN "sum"
    ELSE IF Contains(Lower(col), S_price) THEN "mean"
    ELSE "mean"

\* Lines 174-184: agg_map, keyed by column name.
BuildAggMap(columns, cum_cols) ==
    [col \in {columns[i] : i \in DOMAIN columns} |-> AggRule(col, cum_cols)]

-----------------------------------------------------------------------------
(***************************************************************************)
(* aggregate_trade_data: df.resample(freq).agg(agg_map).reset_index()      *)
(* (lines 186-188).  resample sorts the rows by date (a stable sort),      *)
(* assigns each row to the period that ends on or after its date ("W":     *)
(* the week ending on Sunday; "M": the calendar month; "Q": the calendar   *)
(* quarter), and yields one row for every period from the first row's to   *)
(* the last row's, the periods without rows included.  A table without     *)
(* rows (its date column typed as dates) gives a table without rows.       *)
(* Cells are exact rationals: floating-point rounding is not modelled.     *)
(***************************************************************************)
MonthEnds == {31, 60, 91, 121, 152, 182, 213, 244, 274, 305, 335, 366}
QuarterEnds == {91, 182, 274, 366}
WeekEnds == {7 * k : k \in 1..53}

PeriodEnds(f) ==
    CASE f = "W" -> WeekEnds
      [] f = "M" -> MonthEnds
      [] OTHER -> QuarterEnds

\* The end of the period a day falls in.
BucketEnd(f, day) ==
    CHOOSE e \in PeriodEnds(f) :
        /\ e >= day
        /\ \A e2 \in PeriodEnds(f) : e2 >= day => e <= e2

\* A finite set of integers as the ascending sequence of its elements.
RECURSIVE Ascending(_)
Ascending(S) ==
    IF S = {} THEN <<>>
    ELSE LET m == CHOOSE x \in S : \A y \in S : x <= y
         IN <<m>> \o Ascending(S \ {m})

\* The period ends of the output, with the slip of leaving the last one out.
BinsLastDropped(f, lo, hi) ==
    Ascending({e \in PeriodEnds(f) : BucketEnd(f, lo) <= e /\ e < BucketEnd(f, hi)})

\* The period ends of the output: every period from lo's to hi's.
Bins(f, lo, hi) ==
    Ascending({e \in PeriodEnds(f) : BucketEnd(f, lo) <= e /\ e <= BucketEnd(f, hi)})

\* The positions of the rows in date order, equal dates in row order.
SortOrder(index) ==
    CHOOSE p \in [DOMAIN index -> DOMAIN index] :
        \A i, j \in DOMAIN index :
            i < j => \/ index[p[i]] < index[p[j]]
                     \/ index[p[i]] = index[p[j]] /\ p[i] < p[j]

\* The cells that are not NaN, in order.
NotNaN(cells) == SelectSeq(cells, LAMBDA c : ~IsNaN(c))

RECURSIVE SumNums(_)
SumNums(cells) ==
    IF cells = <<>> THEN 0 ELSE Head(cells).num + SumNums(Tail(cells))

\* "sum": NaN is skipped and the sum of no cell is 0.
SumCells(cells) == Val(SumNums(NotNaN(cells)))

\* "mean": NaN is skipped and the mean of no cell is NaN.
MeanCells(cells) ==
    LET v == NotNaN(cells)
    IN IF v = <<>> THEN NaN ELSE [num |-> SumNums(v), den |-> Len(v)]

\* "last": the last cell that is not NaN, NaN when there is none.
LastCells(cells) ==
    LET v == NotNaN(cells)
    IN IF v = <<>> THEN NaN ELSE v[Len(v)]

Combine(rule, cells) ==
    CASE rule = "sum" -> SumCells(cells)
      [] rule = "last" -> LastCells(cells)
      [] OTHER -> MeanCells(cells)

\* The rows of the period ending on e, in date order.
BucketRows(t, f, e) ==
    SelectSeq(SortOrder(t.index), LAMBDA r : BucketEnd(f, t.index[r]) = e)

\* The cells of column k in the period ending on e, in date order.
BucketCells(t, f, e, k) ==
    [j \in DOMAIN BucketRows(t, f, e) |-> t.data[BucketRows(t, f, e)[j]][k]]

Resample(t, f, amap) ==
    IF t.data = <<>>
    THEN [index |-> <<>>, columns |-> <<S_date>> \o t.columns, data |-> <<>>]
    ELSE
      LET days == {t.index[r] : r \in DOMAIN t.index}
          lo == CHOOSE d \in days : \A e \in days : d <= e
          hi == CHOOSE d \in days : \A e \in days : d >= e
          bins == Bins(f, lo, hi)
      IN [index |-> RangeIndex(Len(bins)),
          columns |-> <<S_date>> \o t.columns,
          data |-> [b \in DOMAIN bins |->
                      <<Val(bins[b])>> \o
                      [k \in DOMAIN t.columns |->
                          Combine(amap[t.columns[k]],
                                  BucketCells(t, f, bins[b], k))]]]

-----------------------------------------------------------------------------
(***************************************************************************)
(* aggregate_trade_data: the steps of the function.                        *)
(***************************************************************************)
NoTable == [index |-> <<>>, columns |-> <<>>, data |-> <<>>]

\* Lines 147-150: period "1M" returns a copy of the table.
ReturnCopy ==
    /\ apc = "start"
    /\ Upper(period) = S_1M
    /\ period' = Upper(period)
    /\ aggregated' = CopyResetIndex(df)
    /\ apc' = "returned"
    /\ UNCHANGED <<df_in, period_in, freq, df, agg_map, resample_calls>>
    /\ UNCHANGED cvars

\* Lines 147, 151-156 and 162: the frequency of the period; df = df.copy().
SelectFreq ==
    /\ apc = "start"
    /\ LET p == Upper(period)
       IN /\ p \in {S_6M, S_1Y, S_2Y, S_3Y, S_5Y}
          /\ period' = p
          /\ freq' = IF p = S_6M THEN "W"
                     ELSE IF p \in {S_1Y, S_2Y} THEN "M"
                     ELSE "Q"
    /\ apc' = "copied"
    /\ UNCHANGED <<df_in, period_in, df, agg_map, resample_calls, aggregated>>
    /\ UNCHANGED cvars

\* Lines 147 and 157-160: any other period raises ValueError.
RaiseUnsupported ==
    /\ apc = "start"
    /\ Upper(period) \notin {S_1M, S_6M, S_1Y, S_2Y, S_3Y, S_5Y}
    /\ period' = Upper(period)
    /\ apc' = "InvalidArgument"
    /\ UNCHANGED <<df_in, period_in, freq, df, agg_map, resample_calls,
                   aggregated>>
    /\ UNCHANGED cvars

\* Lines 163-164 with the slip of handing the table back instead of raising.
ReturnWithoutDate ==
    /\ apc = "copied"
    /\ ~InSeq(S_date, df.columns)
    /\ aggregated' = CopyResetIndex(df)
    /\ apc' = "returned"
    /\ UNCHANGED <<df_in, period_in, period, freq, df, agg_map, resample_calls>>
    /\ UNCHANGED cvars

\* Lines 163-164: a table without a "date" column raises ValueError.
RaiseNoDate ==
    /\ apc = "copied"
    /\ ~InSeq(S_date, df.columns)
    /\ apc' = "InvalidArgument"
    /\ UNCHANGED <<df_in, period_in, period, freq, df, agg_map, resample_calls,
                   aggregated>>
    /\ UNCHANGED cvars

\* Lines 165-184: set_index, the forward fill and agg_map.
Prepare ==
    /\ apc = "copied"
    /\ InSeq(S_date, df.columns)
    /\ LET t == SetIndex(df, S_date)
           cum_cols == CumCols(t.columns)
       IN /\ df' = FFill(t, cum_cols)
          /\ agg_map' = BuildAggMap(t.columns, cum_cols)
    /\ apc' = "resample"
    /\ UNCHANGED <<df_in, period_in, period, freq, resample_calls, aggregated>>
    /\ UNCHANGED cvars

\* Lines 186-189: resample, aggregate, reset_index, return.
ResampleAgg ==
    /\ apc = "resample"
    /\ aggregated' = Resample(df, freq, agg_map)
    /\ resample_calls' = resample_calls + 1
    /\ apc' = "returned"
    /\ UNCHANGED <<df_in, period_in, period, freq, df, agg_map>>
    /\ UNCHANGED cvars

\* Lines 77-79, for every argument pair and every service of the family.
CollectorInit ==
    /\ list_key \in {"Data", "ListDataTudoanh"}
    /\ page_size \in 1..MaxP
    /\ srv \in Services
    /\ srv.shape \in Shapes(list_key)
    /\ (srv.endless => srv.n = 0)
    /\ (~srv.hasTotal => srv.total = 0)
    /\ pc = "request"
    /\ page_index = 1
    /\ rows = <<>>
    /\ total_count = None
    /\ response = NoResponse
    /\ records = <<>>
    /\ requests = <<>>
    /\ result = <<>>

AggIdle ==
    /\ df_in = NoTable
    /\ period_in = <<>>
    /\ apc = "idle"
    /\ period = <<>>
    /\ freq = ""
    /\ df = NoTable
    /\ agg_map = <<>>
    /\ resample_calls = 0
    /\ aggregated = NoTable

Init == CollectorInit /\ AggIdle

Next ==
    \/ Get
    \/ RaiseForStatus
    \/ JsonError
    \/ ProcessPage
    \/ Return

Spec == Init /\ [][Next]_vars

-----------------------------------------------------------------------------
(***************************************************************************)
(* The aggregator's inputs: the tables and the period labels it is run on. *)
(***************************************************************************)
MaxRows == 2       \* rows of an input table: 0..MaxRows

C_total_bva == <<"t", "o", "t", "a", "l", "_", "b", "v", "a">>
C_cumulative_v == <<"c", "u", "m", "u", "l", "a", "t", "i", "v", "e", "_", "v">>
C_total_cumulative == <<"t", "o", "t", "a", "l", "_", "c", "u", "m", "u", "l",
                        "a", "t", "i", "v", "e">>
C_entryPriceBuy == <<"e", "n", "t", "r", "y", "P", "r", "i", "c", "e", "B", "u", "y">>
C_total_nv == <<"t", "o", "t", "a", "l", "_", "n", "v">>
C_cumulative_total_nv == <<"c", "u", "m", "u", "l", "a", "t", "i", "v", "e", "_",
                           "t", "o", "t", "a", "l", "_", "n", "v">>

ColumnLists ==
    { <<S_date, C_total_bva>>,
      <<S_date, C_cumulative_v>>,
      <<S_date, C_total_cumulative>>,
      <<S_date, C_entryPriceBuy>>,
      <<C_total_bva>>,
      <<S_date, C_total_nv, C_cumulative_total_nv>> }

\* The 5th and 7th of January (a Friday and a Sunday) and the 1st of April.
Days == {5, 7, 92}

CellChoices(col) ==
    CASE col = S_date -> {Val(d) : d \in Days}
      [] col = C_total_nv -> {Val(1), Val(2)}
      [] col = C_cumulative_total_nv -> {NaN, Val(3)}
      [] OTHER -> {NaN, Val(1), Val(2)}

AllCells == UNION {CellChoices(col) : col \in {S_date, C_total_nv,
                                               C_cumulative_total_nv, C_total_bva}}

RowsOf(cl) ==
    {r \in [DOMAIN cl -> AllCells] : \A k \in DOMAIN cl : r[k] \in CellChoices(cl[k])}

\* The index of an input table: a RangeIndex, or what a filter left of one.
IndexChoices(n) == {RangeIndex(n), [i \in 1..n |-> i + 1]}

InputTables ==
    UNION { UNION { { [index |-> ix, columns |-> cl, data |-> d] :
                        d \in [1..n -> RowsOf(cl)], ix \in IndexChoices(n) } :
                    n \in 0..MaxRows } :
            cl \in ColumnLists }

PeriodLabels ==
    { <<"1", "M">>, <<"1", "m">>, <<"6", "M">>, <<"6", "m">>, <<"1", "Y">>,
      <<"2", "y">>, <<"3", "Y">>, <<"5", "y">>, <<"1", "0", "Y">>, <<"1", "W">> }

CollectorIdle ==
    /\ list_key = "Data"
    /\ page_size = 1
    /\ srv = [n |-> 0, endless |-> FALSE, hasTotal |-> FALSE, total |-> 0,
              shape |-> "shallow"]
    /\ pc = "idle"
    /\ page_index = 1
    /\ rows = <<>>
    /\ total_count = None
    /\ response = NoResponse
    /\ records = <<>>
    /\ requests = <<>>
    /\ result = <<>>

\* aggregate_trade_data(df, period) is entered.
AggInit ==
    /\ CollectorIdle
    /\ df_in \in InputTables
    /\ period_in \in PeriodLabels
    /\ apc = "start"
    /\ period = period_in
    /\ freq = ""
    /\ df = df_in
    /\ agg_map = <<>>
    /\ resample_calls = 0
    /\ aggregated = NoTable

AggNext ==
    \/ ReturnCopy
    \/ SelectFreq
    \/ RaiseUnsupported
    \/ RaiseNoDate
    \/ Prepare
    \/ ResampleAgg

AggSpec == AggInit /\ [][AggNext]_vars

-----------------------------------------------------------------------------
(***************************************************************************)
(* Properties of _fetch_json_rows, checked under Spec.                     *)
(***************************************************************************)

\* The number of pages of b records that a records fill.
CeilDiv(a, b) == (a + b - 1) \div b

\* The TotalCount the loop works with: 0 when the service reports none.
ReportedTotal == IF srv.hasTotal THEN srv.total ELSE 0

\* C1: against a finite source of N >= 1 records served in pages of P whose
\* record list is present on every page, and that reports either no
\* TotalCount or the accurate one, a call returns exactly the N records in
\* order, having requested exactly the pages 1..ceil(N/P).  (N = 0 is left
\* out: one request is needed to learn that there is nothing.)
C1_AllRecordsInCeilRequests ==
    ( /\ pc = "returned"
      /\ ~srv.endless
      /\ srv.shape \in ListShapes
      /\ srv.n >= 1
      /\ (srv.hasTotal => srv.total = srv.n) )
    => /\ result = Ids(1, srv.n)
       /\ requests = Ids(1, CeilDiv(srv.n, page_size))

\* C2: once a page whose record list is present and empty has been taken in,
\* the collector is on its way out with the rows it has: it is never back at
\* the top of the loop to request a further page.
C2_StopsOnEmptyPage ==
    ( /\ srv.shape \in ListShapes
      /\ Len(requests) >= 1
      /\ pc \in {"request", "return", "returned"}
      /\ records = <<>> )
    => pc \in {"return", "returned"}

\* A page was answered and the answer is about to be looked at.
Answered == pc = "status"

\* C3 as stated: any response that is not a 2xx ends the call in HttpError
\* at once, with no request added.
C3_Non2xxIsHttpError ==
    [][ (Answered /\ ~(response.status >= 200 /\ response.status < 300))
        => (pc' = "HttpError" /\ requests' = requests /\ rows' = rows) ]_vars

\* C3 as amended: a 4xx or 5xx response on any page ends the call in
\* HttpError at once: the step that follows it is the raise, with no request
\* added; and from HttpError on no page is requested and nothing is returned.
C3_HttpErrorAborts ==
    /\ [][ (Answered /\ response.status >= 400 /\ response.status < 600)
           => (pc' = "HttpError" /\ requests' = requests /\ rows' = rows) ]_vars
    /\ [][ pc = "HttpError"
           => (pc' = "HttpError" /\ requests' = requests /\ result' = result) ]_vars

\* C3 witness: the request of a later page failed, with rows of the earlier
\* pages already accumulated.
C3_Witness ==
    /\ pc = "HttpError"
    /\ response.status = 503
    /\ Len(requests) = 2
    /\ Len(rows) >= 1

\* The record list the two paths give for a parsed body: the shallow path,
\* the nested path only when the shallow key is absent, no record otherwise.
PathRecords(body, key) ==
    LET section == IF "Data" \in DOMAIN body THEN body["Data"] ELSE EmptyDict
    IN IF key \in DOMAIN section THEN section[key]
       ELSE IF "Data" \in DOMAIN section /\ key \in DOMAIN section["Data"]
            THEN section["Data"][key]
            ELSE <<>>

\* Neither path holds the key.
NeitherPath(body, key) ==
    LET section == IF "Data" \in DOMAIN body THEN body["Data"] ELSE EmptyDict
    IN /\ key \notin DOMAIN section
       /\ ("Data" \notin DOMAIN section \/ key \notin DOMAIN section["Data"])

\* C4 as stated: the record list is taken from the shallow path, else from
\* the nested one, and a body in which neither path holds it ends the call
\* in ParseError.
C4_MissingListIsParseError ==
    [][ (Answered /\ response.status = 200 /\ response.json)
        => IF NeitherPath(response.body, list_key)
           THEN pc' = "ParseError"
           ELSE records' = PathRecords(response.body, list_key) ]_vars

\* C4 as amended: the record list is taken from the shallow path, else from
\* the nested one; a body in which neither path holds it is a page of zero
\* records: nothing is appended, no error is raised, and the loop goes on to
\* its exit test (return, or the request of the next page).
C4_MissingListIsEmptyPage ==
    [][ (Answered /\ response.status = 200 /\ response.json)
        => /\ records' = PathRecords(response.body, list_key)
           /\ rows' = rows \o PathRecords(response.body, list_key)
           /\ pc' \in {"request", "return"} ]_vars

\* C4 witness: a page without the list at either path was taken in as an
\* empty page and the next page is about to be requested.
C4_Witness ==
    /\ srv.shape = "innerNoKey"
    /\ srv.hasTotal /\ srv.total >= 1
    /\ pc = "request"
    /\ page_index = 2
    /\ rows = <<>>

-----------------------------------------------------------------------------
(***************************************************************************)
(* Properties of aggregate_trade_data, checked under AggSpec.              *)
(***************************************************************************)

\* The labels that name the horizon 1M.
Labels1M == { <<"1", "M">>, <<"1", "m">> }

\* The labels that name a horizon, in every letter case.
AcceptedLabels ==
    { <<"1", "M">>, <<"1", "m">>, <<"6", "M">>, <<"6", "m">>,
      <<"1", "Y">>, <<"1", "y">>, <<"2", "Y">>, <<"2", "y">>,
      <<"3", "Y">>, <<"3", "y">>, <<"5", "Y">>, <<"5", "y">> }

HasDate(t) == \E k \in DOMAIN t.columns : t.columns[k] = S_date

\* C5 as stated: a table without the date column never gets a table back,
\* whatever the label, and no resampling is made.
C5_NoDateAlwaysInvalid ==
    ~HasDate(df_in)
    => /\ apc \in {"start", "copied", "InvalidArgument"}
       /\ resample_calls = 0

\* C5 as amended: a table without the date column ends in InvalidArgument,
\* with no table and before any resampling, for every label other than 1M;
\* with 1M (in any case) it is returned as a copy and no error is raised.
C5_NoDateInvalidUnless1M ==
    ~HasDate(df_in)
    => IF period_in \in Labels1M
       THEN /\ apc \in {"start", "returned"}
            /\ (apc = "returned" => /\ aggregated.columns = df_in.columns
                                    /\ aggregated.data = df_in.data)
       ELSE /\ apc \in {"start", "copied", "InvalidArgument"}
            /\ (apc = "copied" => ENABLED RaiseNoDate)
            /\ resample_calls = 0
            /\ aggregated = NoTable

\* C5 witness: a table with rows and no date column, a supported label
\* other than 1M, and the call has ended in InvalidArgument.
C5_Witness ==
    /\ ~HasDate(df_in)
    /\ Len(df_in.data) >= 1
    /\ period_in = <<"6", "m">>
    /\ apc = "InvalidArgument"

\* C6: with the label 1M, in either case, the returned table has the
\* columns of the input in their order and the rows of the input in their
\* order, cell for cell.
C6_1MReturnsSameTable ==
    ( apc = "returned" /\ period_in \in Labels1M )
    => /\ aggregated.columns = df_in.columns
       /\ aggregated.data = df_in.data
       /\ resample_calls = 0

\* C6 witness: "1m" on a table of two rows whose index is not 0, 1.
C6_Witness ==
    /\ apc = "returned"
    /\ period_in = <<"1", "m">>
    /\ Len(df_in.data) = 2
    /\ df_in.index # RangeIndex(2)
    /\ HasDate(df_in)

\* C7: the labels accepted are exactly 1M, 6M, 1Y, 2Y, 3Y, 5Y in any letter
\* case: any other label ends in InvalidArgument with no table and no
\* resampling, and an accepted label on a table with a date column never
\* ends in InvalidArgument.
C7_ExactlySixLabels ==
    /\ period_in \notin AcceptedLabels
       => /\ apc \in {"start", "InvalidArgument"}
          /\ (apc = "start" => ENABLED RaiseUnsupported)
          /\ aggregated = NoTable
          /\ resample_calls = 0
    /\ (period_in \in AcceptedLabels /\ HasDate(df_in))
       => apc # "InvalidArgument"

\* C7 witness: "10Y" on a table with a date column and rows has ended in
\* InvalidArgument.
C7_Witness ==
    /\ period_in = <<"1", "0", "Y">>
    /\ HasDate(df_in)
    /\ Len(df_in.data) >= 1
    /\ apc = "InvalidArgument"

\* The rule the ordered predicates give a column name.
RuleByName(col) ==
    IF Contains(col, S_cumulative) THEN "last"
    ELSE IF StartsWith(col, S_total_) THEN "sum"
    ELSE IF Contains(Lower(col), S_price) THEN "mean"
    ELSE "mean"

\* The aggregation has been prepared (and possibly carried out).
Prepared == apc = "resample" \/ (apc = "returned" /\ resample_calls = 1)

\* C8: for a horizon other than 1M, every column but the date gets the rule
\* of the first predicate its name matches (cumulative: last; total_: sum;
\* else mean), the cumulative columns are forward-filled before resampling,
\* and every cell of the output is that rule applied to its bucket.
C8_RuleByFirstMatch ==
    Prepared
    => /\ DOMAIN agg_map =
            {df_in.columns[k] : k \in DOMAIN df_in.columns} \ {S_date}
       /\ \A col \in DOMAIN agg_map : agg_map[col] = RuleByName(col)
       /\ \A k \in DOMAIN df.columns : \A r \in DOMAIN df.data :
            ( Contains(df.columns[k], S_cumulative) /\ r > 1
              /\ IsNaN(df.data[r][k]) ) => IsNaN(df.data[r - 1][k])
       /\ apc = "returned"
          => \A b \in DOMAIN aggregated.data : \A k \in DOMAIN df.columns :
                aggregated.data[b][k + 1] =
                    Combine(RuleByName(df.columns[k]),
                            BucketCells(df, freq, aggregated.data[b][1].num, k))

\* C8 witness: a column that starts with total_ and contains cumulative,
\* with 2 on a Friday and 1 on the Sunday of the same week: the week's cell
\* is 1, the last value, not 3, the sum.
C8_Witness ==
    /\ apc = "returned"
    /\ freq = "W"
    /\ df.columns = <<C_total_cumulative>>
    /\ df.index = <<5, 7>>
    /\ df.data = << <<Val(2)>>, <<Val(1)>> >>
    /\ aggregated.data = << <<Val(7), Val(1)>> >>

\* The sum of a column over the rows of a table, NaN skipped.
ColumnTotal(t, col) ==
    LET k == CHOOSE i \in DOMAIN t.columns : t.columns[i] = col
    IN SumNums(NotNaN([r \in DOMAIN t.data |-> t.data[r][k]]))

\* C9: for a horizon other than 1M on a table with a date column, every
\* column that starts with total_ and does not contain cumulative sums to
\* the same grand total over the output buckets as over the input rows.
C9_SumInvariance ==
    ( apc = "returned" /\ resample_calls = 1 )
    => \A k \in DOMAIN df_in.columns :
          ( /\ StartsWith(df_in.columns[k], S_total_)
            /\ ~Contains(df_in.columns[k], S_cumulative) )
          => ColumnTotal(aggregated, df_in.columns[k])
                = ColumnTotal(df_in, df_in.columns[k])

\* C9 witness: a total_ column worth 3 over rows that fall in two buckets
\* with empty buckets between them.
C9_Witness ==
    /\ apc = "returned"
    /\ resample_calls = 1
    /\ df_in.columns = <<S_date, C_total_bva>>
    /\ Len(aggregated.data) >= 3
    /\ ColumnTotal(df_in, C_total_bva) = 3
    /\ aggregated.data[1][2] # Val(0)
    /\ aggregated.data[Len(aggregated.data)][2] # Val(0)

=============================================================================
